---- MODULE Spec2Model ----
(***************************************************************************)
(* Model of ascii_art.c: an image -> ASCII art converter.                  *)
(*                                                                         *)
(* The program computes in IEEE-754 single precision (float).  A float is  *)
(* modelled bit-exactly as a record [k, s, m, e]: kind k ("fin", "inf",    *)
(* "nan"), sign s (1 or -1), and for a finite value the 24-bit significand *)
(* m (0, or 2^23 <= m < 2^24) and exponent e, the value being s*m*2^e.     *)
(* Every float operation rounds to nearest, ties to even, as on the        *)
(* hardware.  Subnormals and exponent overflow are out of reach of the     *)
(* program's values and are not modelled.                                  *)
(***************************************************************************)
EXTENDS Integers, Sequences, FiniteSets, TLC

(***************************************************************************)
(* Machine integers                                                        *)
(***************************************************************************)
INT_MAX == 2147483647
INT_MIN == -2147483647 - 1

P23 == 8388608
P24 == 16777216

Pow2(n) == 2^n

RECURSIVE BitLen(_)
BitLen(n) == IF n = 0 THEN 0 ELSE 1 + BitLen(n \div 2)

Abs(n) == IF n < 0 THEN -n ELSE n

(***************************************************************************)
(* Single-precision arithmetic                                             *)
(***************************************************************************)
Fin(s, m, e) == [k |-> "fin", s |-> s, m |-> m, e |-> e]
FZero == Fin(1, 0, 0)
FNaN == [k |-> "nan", s |-> 1, m |-> 0, e |-> 0]
FInf(s) == [k |-> "inf", s |-> s, m |-> 0, e |-> 0]

\* Round the exact value s*(N + f)*2^e to a float, where 0 <= N < 2^31 and
\* st says whether the discarded fraction f (0 <= f < 1) is nonzero.  When
\* st holds the callers supply N with at least 26 significant bits.
Norm(s, N, st, e) ==
    IF N = 0 THEN FZero
    ELSE LET L == BitLen(N) IN
         IF L <= 24 THEN Fin(s, N * Pow2(24 - L), e - (24 - L))
         ELSE LET d == L - 24
                  half == Pow2(d - 1)
                  q == N \div Pow2(d)
                  r == N % Pow2(d)
                  up == r > half \/ (r = half /\ (st \/ q % 2 = 1))
                  q1 == IF up THEN q + 1 ELSE q
              IN IF q1 = P24 THEN Fin(s, P23, e + d + 1) ELSE Fin(s, q1, e + d)

\* (float)n for an int n
IntToFloat(n) ==
    IF n = INT_MIN THEN Fin(-1, P23, 8)
    ELSE Norm(IF n < 0 THEN -1 ELSE 1, Abs(n), FALSE, 0)

\* x * y
FMul(x, y) ==
    IF x.k = "nan" \/ y.k = "nan" THEN FNaN
    ELSE IF x.k = "inf" \/ y.k = "inf"
         THEN IF (x.k = "fin" /\ x.m = 0) \/ (y.k = "fin" /\ y.m = 0)
              THEN FNaN ELSE FInf(x.s * y.s)
    ELSE IF x.m = 0 \/ y.m = 0 THEN FZero
    ELSE LET a1 == x.m \div 4096  a0 == x.m % 4096
             b1 == y.m \div 4096  b0 == y.m % 4096
             mid == a1 * b0 + a0 * b1
             lof == (mid % 4096) * 4096 + a0 * b0
             hi == a1 * b1 + mid \div 4096 + lof \div P24
             lo == lof % P24
             \* x.m * y.m = hi * 2^24 + lo
         IN Norm(x.s * y.s, hi * 64 + lo \div 262144, lo % 262144 # 0,
                 x.e + y.e + 18)

RECURSIVE DivBits(_, _, _, _)
DivBits(r, d, n, acc) ==
    IF n = 0 THEN <<acc, r>>
    ELSE IF 2 * r >= d THEN DivBits(2 * r - d, d, n - 1, 2 * acc + 1)
         ELSE DivBits(2 * r, d, n - 1, 2 * acc)

\* x / y, y finite and nonzero
FDiv(x, y) ==
    IF x.k = "nan" \/ y.k # "fin" \/ y.m = 0 THEN FNaN
    ELSE IF x.k = "inf" THEN FInf(x.s * y.s)
    ELSE IF x.m = 0 THEN FZero
    ELSE LET i == x.m \div y.m
             qr == DivBits(x.m - i * y.m, y.m, 26, i)
         IN Norm(x.s * y.s, qr[1], qr[2] # 0, x.e - y.e - 26)

\* |a| >= |b| for finite nonzero a, b
MagGeq(a, b) == a.e > b.e \/ (a.e = b.e /\ a.m >= b.m)

\* the low part of b once aligned 6 bits below a's last place: <<q, st>>
Aligned(a, b) ==
    LET t == (a.e - b.e) - 6
    IN IF t >= 24 THEN <<0, TRUE>>
       ELSE <<b.m \div Pow2(t), b.m % Pow2(t) # 0>>

\* |a| + |b| with sign s, a.e >= b.e, both finite nonzero
MagAdd(s, a, b) ==
    IF a.e - b.e <= 6 THEN Norm(s, a.m * Pow2(a.e - b.e) + b.m, FALSE, b.e)
    ELSE LET al == Aligned(a, b)
         IN Norm(s, a.m * 64 + al[1], al[2], a.e - 6)

\* |a| - |b| with sign s, |a| >= |b|, both finite nonzero
MagSub(s, a, b) ==
    IF a.e - b.e <= 6 THEN Norm(s, a.m * Pow2(a.e - b.e) - b.m, FALSE, b.e)
    ELSE LET al == Aligned(a, b)
         IN IF al[2] THEN Norm(s, a.m * 64 - al[1] - 1, TRUE, a.e - 6)
            ELSE Norm(s, a.m * 64 - al[1], FALSE, a.e - 6)

\* x + y
FAdd(x, y) ==
    IF x.k = "nan" \/ y.k = "nan" THEN FNaN
    ELSE IF x.k = "inf"
         THEN IF y.k = "inf" /\ y.s # x.s THEN FNaN ELSE x
    ELSE IF y.k = "inf" THEN y
    ELSE IF x.m = 0 THEN y
    ELSE IF y.m = 0 THEN x
    ELSE LET a == IF MagGeq(x, y) THEN x ELSE y
             b == IF MagGeq(x, y) THEN y ELSE x
         IN IF a.s = b.s THEN MagAdd(a.s, a, b) ELSE MagSub(a.s, a, b)

\* integer part and fraction flags of a finite |x|: <<ip, nonzero, atLeastHalf>>
\* (only for e <= 7, where the integer part fits an int)
Split(x) ==
    IF x.e >= 0 THEN <<x.m * Pow2(x.e), FALSE, FALSE>>
    ELSE IF -x.e > 24 THEN <<0, x.m # 0, FALSE>>
    ELSE LET p == Pow2(-x.e)
         IN <<x.m \div p, x.m % p # 0, 2 * (x.m % p) >= p>>

\* floorf, ceilf, roundf: integral floats; values of magnitude >= 2^24 are
\* already integral
FloorF(x) ==
    IF x.k # "fin" \/ x.e >= 0 THEN x
    ELSE LET sp == Split(x)
         IN IF x.s = 1 THEN IntToFloat(sp[1])
            ELSE IntToFloat(-(sp[1] + IF sp[2] THEN 1 ELSE 0))

CeilF(x) ==
    IF x.k # "fin" \/ x.e >= 0 THEN x
    ELSE LET sp == Split(x)
         IN IF x.s = 1 THEN IntToFloat(sp[1] + IF sp[2] THEN 1 ELSE 0)
            ELSE IntToFloat(-sp[1])

\* roundf rounds half away from zero
RoundF(x) ==
    IF x.k # "fin" \/ x.e >= 0 THEN x
    ELSE LET sp == Split(x)
         IN IntToFloat(x.s * (sp[1] + IF sp[3] THEN 1 ELSE 0))

\* (int)x is undefined behaviour in C when x is NaN, infinite or out of int
\* range.  The builds differ: x86 (cvttss2si) yields INT_MIN, the "integer
\* indefinite"; saturating targets yield INT_MAX or INT_MIN by the sign of x
\* and 0 for NaN.
UBModes == {"indefinite", "saturate"}

InIntRange(x) ==
    /\ x.k = "fin"
    /\ x.m = 0 \/ x.e <= 7 \/ (x.s = -1 /\ x.m = P23 /\ x.e = 8)

\* (int)x for an integral float x; ub is the build's behaviour when the
\* conversion is undefined
CastInt(x, ub) ==
    IF ~InIntRange(x)
    THEN IF ub = "indefinite" THEN INT_MIN
         ELSE IF x.k = "nan" THEN 0
         ELSE IF x.s = 1 THEN INT_MAX ELSE INT_MIN
    ELSE IF x.m = 0 THEN 0
    ELSE IF x.e = 8 THEN INT_MIN
    ELSE x.s * Split(x)[1]

(***************************************************************************)
(* Double-precision accumulator of a cell (sum_lum)                        *)
(*                                                                         *)
(* sum_lum adds floats from {0} \cup [2^-12, 2): every term is a multiple  *)
(* of 2^-40 and the sum of at most MaxCount of them has fewer than 53      *)
(* significant bits, so the double sum is exact.  It is kept as the        *)
(* integer hi*2^24 + lo in units of 2^-40.  sum_lum / count is then        *)
(* rounded to float; the double quotient carries 29 bits more than a       *)
(* float, which a quotient by count < 2^7 cannot fill with a rounding tie, *)
(* so the conversion rounds the exact quotient once.                       *)
(***************************************************************************)
WUnit == -40

WZero == [hi |-> 0, lo |-> 0]

ToWide(f) ==
    IF f.m = 0 THEN WZero
    ELSE LET k == f.e - WUnit
         IN [hi |-> f.m \div Pow2(24 - k),
             lo |-> (f.m % Pow2(24 - k)) * Pow2(k)]

WideAdd(a, b) ==
    [hi |-> a.hi + b.hi + (a.lo + b.lo) \div P24, lo |-> (a.lo + b.lo) % P24]

\* (float)(sum / count)
WideAvg(sum, count) ==
    LET qhi == sum.hi \div count
        t == (sum.hi % count) * P24 + sum.lo
        qlo == t \div count
        st == t % count # 0
        L == BitLen(qhi)
    IN IF L <= 6 THEN Norm(1, qhi * P24 + qlo, st, WUnit)
       ELSE LET d == L - 6
            IN Norm(1, qhi * Pow2(24 - d) + qlo \div Pow2(d),
                    st \/ qlo % Pow2(d) # 0, WUnit + d)

(***************************************************************************)
(* Constants of the program                                                *)
(***************************************************************************)
\* characters are one-character strings, C strings sequences of characters
RAMP_DEFAULT == <<"@", "%", "#", "*", "+", "=", "-", ":", ".", " ">>
RAMP_INVERT == <<" ", ".", ":", "-", "=", "+", "*", "#", "%", "@">>

DEFAULT_WIDTH == 120

\* 0.55f, 0.5f, 0.2126f, 0.7152f, 0.0722f, 255.0f
CHAR_ASPECT == Fin(1, 9227469, -24)
HALF == Fin(1, 8388608, -24)
LUMA_R == Fin(1, 14267344, -26)
LUMA_G == Fin(1, 11999065, -24)
LUMA_B == Fin(1, 9690520, -27)
F255 == Fin(1, 16711680, -16)

clampi(v, a, b) == IF v < a THEN a ELSE IF v > b THEN b ELSE v

\* luminance_to_char; ub is the outcome of the float-to-int conversion when
\* it is undefined
luminance_to_char(lum, ramp, ub) ==
    LET len == Len(ramp)
        idx == CastInt(FloorF(FAdd(FMul(lum, IntToFloat(len - 1)), HALF)), ub)
    IN ramp[clampi(idx, 0, len - 1) + 1]

(***************************************************************************)
(* atoi: skip white space, an optional sign, then the leading digits       *)
(***************************************************************************)
Digits == <<"0", "1", "2", "3", "4", "5", "6", "7", "8", "9">>
IsDigit(c) == \E d \in 1..10 : Digits[d] = c
DigitVal(c) == (CHOOSE d \in 1..10 : Digits[d] = c) - 1
IsSpace(c) == c \in {" ", "\t", "\n"}

RECURSIVE SkipSpace(_, _)
SkipSpace(s, i) ==
    IF i <= Len(s) /\ IsSpace(s[i]) THEN SkipSpace(s, i + 1) ELSE i

RECURSIVE ScanDigits(_, _, _)
ScanDigits(s, i, acc) ==
    IF i <= Len(s) /\ IsDigit(s[i])
    THEN ScanDigits(s, i + 1, 10 * acc + DigitVal(s[i]))
    ELSE acc

atoi(s) ==
    LET i == SkipSpace(s, 1)
        neg == i <= Len(s) /\ s[i] = "-"
        j == IF i <= Len(s) /\ s[i] \in {"-", "+"} THEN i + 1 ELSE i
        v == ScanDigits(s, j, 0)
    IN IF neg THEN -v ELSE v

(***************************************************************************)
(* Geometry and averaging (the body of main)                               *)
(***************************************************************************)
\* the planner without "if (out_h < 1) out_h = 1"
PlanOutH_NoClamp(h, w, ow, ub) ==
    CastInt(RoundF(FMul(FMul(IntToFloat(h),
                             FDiv(IntToFloat(ow), IntToFloat(w))),
                        CHAR_ASPECT)), ub)

\* the planner without the character aspect
PlanOutH_NoAspect(h, w, ow, ub) ==
    LET r == CastInt(RoundF(FMul(IntToFloat(h),
                                 FDiv(IntToFloat(ow), IntToFloat(w)))), ub)
    IN IF r < 1 THEN 1 ELSE r

\* out_h = (int)roundf((float)h * ((float)out_w / (float)w) * CHAR_ASPECT),
\* raised to 1
PlanOutH(h, w, ow, ub) ==
    LET r == CastInt(RoundF(FMul(FMul(IntToFloat(h),
                                      FDiv(IntToFloat(ow), IntToFloat(w))),
                                 CHAR_ASPECT)), ub)
    IN IF r < 1 THEN 1 ELSE r

\* sx0 / sy0: clampi((int)floorf((float)o * (float)size / (float)n), 0, size)
SrcLo(o, size, n, ub) ==
    clampi(CastInt(FloorF(FDiv(FMul(IntToFloat(o), IntToFloat(size)),
                               IntToFloat(n))), ub), 0, size)

\* the upper bound with floorf in place of ceilf
SrcHi_Floor(o, size, n, ub) ==
    clampi(CastInt(FloorF(FDiv(FMul(IntToFloat(o + 1), IntToFloat(size)),
                               IntToFloat(n))), ub), 0, size)

\* sx1 / sy1: clampi((int)ceilf((float)(o+1) * (float)size / (float)n), 0, size)
SrcHi(o, size, n, ub) ==
    clampi(CastInt(CeilF(FDiv(FMul(IntToFloat(o + 1), IntToFloat(size)),
                              IntToFloat(n))), ub), 0, size)

\* line 124: (0.2126f * r + 0.7152f * g + 0.0722f * b) / 255.0f
Luminance(r, g, b) ==
    FDiv(FAdd(FAdd(FMul(LUMA_R, IntToFloat(r)), FMul(LUMA_G, IntToFloat(g))),
              FMul(LUMA_B, IntToFloat(b))), F255)

\* the luminance of the pixel (sx, sy) as the inner loop reads it from the
\* buffer; ch is the channel count after "if (channels < 3) channels = 1"
PixelLum(data, ww, ch, sx, sy) ==
    LET idx == (sy * ww + sx) * (IF ch = 1 THEN 1 ELSE ch)
        r == data[idx + 1]
        g == IF ch = 1 THEN r ELSE data[idx + 2]
        b == IF ch = 1 THEN r ELSE data[idx + 3]
    IN Luminance(r, g, b)

\* sum_lum after the first k pixels of the rectangle, in loop order
RECURSIVE SumLum(_, _, _, _, _, _, _)
SumLum(data, ww, ch, x0, x1, y0, k) ==
    IF k = 0 THEN WZero
    ELSE WideAdd(SumLum(data, ww, ch, x0, x1, y0, k - 1),
                 ToWide(PixelLum(data, ww, ch, x0 + ((k - 1) % (x1 - x0)),
                                 y0 + ((k - 1) \div (x1 - x0)))))

\* avg_lum of the rectangle [x0, x1) x [y0, y1)
CellLum(data, ww, ch, x0, x1, y0, y1) ==
    LET count == IF x1 > x0 /\ y1 > y0 THEN (x1 - x0) * (y1 - y0) ELSE 0
    IN IF count > 0 THEN WideAvg(SumLum(data, ww, ch, x0, x1, y0, count), count)
       ELSE FZero


(***************************************************************************)
(* Inputs: the command line and the decoded image                          *)
(***************************************************************************)
MaxW == 3
MaxH == 3
Channels == {1, 2, 3, 4}

PROG == <<"a">>
PATH == <<"f">>
INV == <<"i", "n", "v">>
INVERT == <<"i", "n", "v", "e", "r", "t">>

MaxT == 3
WideW == 60

\* the width arguments "1" .. "MaxT"
PlainWidthArgs == {<<Digits[t + 1]>> : t \in 1..MaxT}
\* other spellings atoi reads as 2 or 3, and arguments it reads as <= 0
OddWidthArgs == {<<"+", "2">>, <<" ", "3">>, <<"2", "x">>, <<"0", "2">>}
BadWidthArgs ==
    {<<"0">>, <<"-", "2">>, <<"a", "b">>, <<>>, <<"-">>, <<"x", "3">>}
ModeArgs == {INV, INVERT, <<"x">>, <<>>, <<"i", "n">>, <<"I", "N", "V">>}

WHITE == <<255, 255, 255>>
BLACK == <<0, 0, 0>>
GrayColours == {BLACK, <<128, 128, 128>>, WHITE}
Colours == GrayColours \cup {<<255, 0, 0>>, <<10, 200, 90>>}
Alphas == {255, 0}

\* the bytes stb_image delivers for a pixel of colour c and alpha a in an
\* n-channel buffer: grey; grey, alpha; r, g, b; r, g, b, alpha
PixelBytes(c, a, n) ==
    CASE n = 1 -> <<c[1]>>
      [] n = 2 -> <<c[1], a>>
      [] n = 3 -> c
      [] OTHER -> c \o <<a>>

\* the row-major buffer of ww*hh pixels; px[p] is the colour of pixel p
Buffer(ww, hh, n, px, a) ==
    [i \in 1..(ww * hh * n) |->
        PixelBytes(px[(i - 1) \div n], a, n)[((i - 1) % n) + 1]]

Image(ww, hh, n, px, a) ==
    [w |-> ww, h |-> hh, n |-> n, data |-> Buffer(ww, hh, n, px, a)]

Uniform(ww, hh, c) == [p \in 0..(ww * hh - 1) |-> c]
\* all white but the bottom-right pixel, which is black
Corner(ww, hh) ==
    [p \in 0..(ww * hh - 1) |-> IF p = ww * hh - 1 THEN BLACK ELSE WHITE]

ColoursOf(n) == IF n < 3 THEN GrayColours ELSE Colours
AlphasOf(n) == IF n \in {2, 4} THEN Alphas ELSE {255}

\* the pictures of one size and channel count
Pictures(ww, hh, n) ==
    {Image(ww, hh, n, px, a) :
        px \in {Uniform(ww, hh, c) : c \in ColoursOf(n)} \cup {Corner(ww, hh)},
        a \in AlphasOf(n)}

Images ==
    UNION {Pictures(s[1], s[2], s[3]) :
             s \in (1..MaxW) \X (1..MaxH) \X Channels}

NotImage == [w |-> 0, h |-> 0, n |-> 0, data |-> <<>>]

\* runs at an explicit width 1..MaxT, over every picture
SmallRuns ==
    {[argv |-> av, file |-> f] :
        av \in {<<PROG, PATH, wa>> : wa \in PlainWidthArgs}
               \cup {<<PROG, PATH, <<"2">>, INV>>},
        f \in Images}

\* runs over the spellings of the width and mode arguments
SampleImages ==
    {Image(2, 2, n, Corner(2, 2), 255) : n \in {1, 3}}
    \cup {Image(2, 1, n, Uniform(2, 1, BLACK), 255) : n \in {1, 3, 4}}
SpellingRuns ==
    {[argv |-> av, file |-> f] :
        av \in {<<PROG, PATH, wa>> : wa \in OddWidthArgs}
               \cup {<<PROG, PATH, wa, INVERT>> : wa \in OddWidthArgs}
               \cup {<<PROG, PATH, <<"2">>, m>> : m \in ModeArgs},
        f \in SampleImages}

\* runs that fall back to the default width, on a wide one-row image
WideImages ==
    {Image(WideW, 1, n, Uniform(WideW, 1, c), 255) :
        n \in {1, 3}, c \in {BLACK, WHITE}}
FallbackRuns ==
    {[argv |-> av, file |-> f] :
        av \in {<<PROG, PATH>>}
               \cup {<<PROG, PATH, wa>> : wa \in BadWidthArgs}
               \cup {<<PROG, PATH, <<"0">>, INV>>},
        f \in WideImages}

\* runs that fail: no path, or a path the decoder rejects
FatalRuns ==
    {[argv |-> <<PROG>>, file |-> NotImage]}
    \cup {[argv |-> av, file |-> NotImage] :
            av \in {<<PROG, PATH>>, <<PROG, PATH, <<"2">>>>,
                    <<PROG, PATH, <<"0">>, INV>>}}

Runs == SmallRuns \cup SpellingRuns \cup FallbackRuns \cup FatalRuns

(***************************************************************************)
(* State                                                                   *)
(***************************************************************************)
VARIABLES
    argv,          \* the command line, argv[1] being the program name
    file,          \* what stbi_load finds at the path
    pc,            \* position in main
    filename, target_width, invert,
    img, w, h, channels,
    out_w, out_h, ramp,
    oy, sy0, sy1, ox,
    out,           \* standard output
    err,           \* standard error
    exit_code,     \* -1 while running
    call           \* a direct call of one function, outside of main

vars == <<argv, file, pc, filename, target_width, invert, img, w, h, channels,
          out_w, out_h, ramp, oy, sy0, sy1, ox, out, err, exit_code, call>>

argc == Len(argv)

NoCall == [fn |-> "none"]

Locals0 ==
    /\ filename = <<>>
    /\ target_width = 0
    /\ invert = 0
    /\ img = <<>>
    /\ w = 0
    /\ h = 0
    /\ channels = 0
    /\ out_w = 0
    /\ out_h = 0
    /\ ramp = <<>>
    /\ oy = 0
    /\ sy0 = 0
    /\ sy1 = 0
    /\ ox = 0
    /\ out = <<>>
    /\ err = <<>>
    /\ exit_code = -1

Init ==
    /\ \E r \in Runs : argv = r.argv /\ file = r.file
    /\ pc = "start"
    /\ Locals0
    /\ call = NoCall

(***************************************************************************)
(* main                                                                    *)
(***************************************************************************)
\* lines 51-58: no image path
Usage ==
    /\ pc = "start"
    /\ argc < 2
    /\ err' = Append(err, <<"usage", argv[1]>>)
    /\ exit_code' = 1
    /\ pc' = "done"
    /\ UNCHANGED <<argv, file, filename, target_width, invert, img, w, h,
                   channels, out_w, out_h, ramp, oy, sy0, sy1, ox, out, call>>

\* the argument parser without "if (target_width <= 0) target_width = 120"
ParseArgs_NoFallback ==
    /\ pc = "start"
    /\ argc >= 2
    /\ filename' = argv[2]
    /\ target_width' = IF argc >= 3 THEN atoi(argv[3]) ELSE DEFAULT_WIDTH
    /\ invert' = IF argc >= 4 /\ (argv[4] = INV \/ argv[4] = INVERT)
                 THEN 1 ELSE 0
    /\ pc' = "load"
    /\ UNCHANGED <<argv, file, img, w, h, channels, out_w, out_h, ramp, oy,
                   sy0, sy1, ox, out, err, exit_code, call>>

\* lines 60-69
ParseArgs ==
    /\ pc = "start"
    /\ argc >= 2
    /\ filename' = argv[2]
    /\ target_width' =
          IF argc >= 3
          THEN IF atoi(argv[3]) <= 0 THEN DEFAULT_WIDTH ELSE atoi(argv[3])
          ELSE DEFAULT_WIDTH
    /\ invert' = IF argc >= 4 /\ (argv[4] = INV \/ argv[4] = INVERT)
                 THEN 1 ELSE 0
    /\ pc' = "load"
    /\ UNCHANGED <<argv, file, img, w, h, channels, out_w, out_h, ramp, oy,
                   sy0, sy1, ox, out, err, exit_code, call>>

\* the decode failure returning 1
LoadFail_Exit1 ==
    /\ pc = "load"
    /\ file = NotImage
    /\ err' = Append(err, <<"load", filename>>)
    /\ exit_code' = 1
    /\ pc' = "done"
    /\ UNCHANGED <<argv, file, filename, target_width, invert, img, w, h,
                   channels, out_w, out_h, ramp, oy, sy0, sy1, ox, out, call>>

\* the decode failure reported with printf, on standard output
LoadFail_Stdout ==
    /\ pc = "load"
    /\ file = NotImage
    /\ out' = out \o <<"F", "\n">>
    /\ exit_code' = 2
    /\ pc' = "done"
    /\ UNCHANGED <<argv, file, filename, target_width, invert, img, w, h,
                   channels, out_w, out_h, ramp, oy, sy0, sy1, ox, err, call>>

\* lines 72-76: the decoder returns no buffer
LoadFail ==
    /\ pc = "load"
    /\ file = NotImage
    /\ err' = Append(err, <<"load", filename>>)
    /\ exit_code' = 2
    /\ pc' = "done"
    /\ UNCHANGED <<argv, file, filename, target_width, invert, img, w, h,
                   channels, out_w, out_h, ramp, oy, sy0, sy1, ox, out, call>>

\* line 72: the decoder returns a buffer
LoadOk ==
    /\ pc = "load"
    /\ file # NotImage
    /\ img' = file.data
    /\ w' = file.w
    /\ h' = file.h
    /\ channels' = file.n
    /\ pc' = "plan"
    /\ UNCHANGED <<argv, file, filename, target_width, invert, out_w, out_h,
                   ramp, oy, sy0, sy1, ox, out, err, exit_code, call>>

\* lines 79-94
Plan ==
    /\ pc = "plan"
    /\ channels' = IF channels < 3 THEN 1 ELSE channels
    /\ out_w' = target_width
    /\ \E ub \in UBModes : out_h' = PlanOutH(h, w, target_width, ub)
    /\ ramp' = IF invert # 0 THEN RAMP_INVERT ELSE RAMP_DEFAULT
    /\ oy' = 0
    /\ pc' = "row"
    /\ UNCHANGED <<argv, file, filename, target_width, invert, img, w, h,
                   sy0, sy1, ox, out, err, exit_code, call>>

\* lines 94-103: the head of a row
RowBegin ==
    /\ pc = "row"
    /\ oy < out_h
    /\ \E ub \in UBModes :
          /\ sy0' = SrcLo(oy, h, out_h, ub)
          /\ sy1' = SrcHi(oy, h, out_h, ub)
    /\ ox' = 0
    /\ pc' = "cell"
    /\ UNCHANGED <<argv, file, filename, target_width, invert, img, w, h,
                   channels, out_w, out_h, ramp, oy, out, err, exit_code, call>>

\* lines 103-133: one cell
Cell ==
    /\ pc = "cell"
    /\ ox < out_w
    /\ \E ub \in UBModes :
          LET sx0 == SrcLo(ox, w, out_w, ub)
              sx1 == SrcHi(ox, w, out_w, ub)
              avg_lum == CellLum(img, w, channels, sx0, sx1, sy0, sy1)
          IN out' = Append(out, luminance_to_char(avg_lum, ramp, ub))
    /\ ox' = ox + 1
    /\ UNCHANGED <<argv, file, pc, filename, target_width, invert, img, w, h,
                   channels, out_w, out_h, ramp, oy, sy0, sy1, err, exit_code,
                   call>>

\* the end of a row without putchar('\n')
RowEnd_NoNewline ==
    /\ pc = "cell"
    /\ ox >= out_w
    /\ oy' = oy + 1
    /\ pc' = "row"
    /\ UNCHANGED <<argv, file, filename, target_width, invert, img, w, h,
                   channels, out_w, out_h, ramp, sy0, sy1, ox, out, err,
                   exit_code, call>>

\* lines 103, 134: the end of a row
RowEnd ==
    /\ pc = "cell"
    /\ ox >= out_w
    /\ out' = Append(out, "\n")
    /\ oy' = oy + 1
    /\ pc' = "row"
    /\ UNCHANGED <<argv, file, filename, target_width, invert, img, w, h,
                   channels, out_w, out_h, ramp, sy0, sy1, ox, err, exit_code,
                   call>>

\* lines 94, 137-138
Finish ==
    /\ pc = "row"
    /\ oy >= out_h
    /\ img' = <<>>
    /\ exit_code' = 0
    /\ pc' = "done"
    /\ UNCHANGED <<argv, file, filename, target_width, invert, w, h, channels,
                   out_w, out_h, ramp, oy, sy0, sy1, ox, out, err, call>>

Next ==
    \/ Usage
    \/ ParseArgs
    \/ LoadFail
    \/ LoadOk
    \/ Plan
    \/ RowBegin
    \/ Cell
    \/ RowEnd
    \/ Finish

Spec == Init /\ [][Next]_vars


(***************************************************************************)
(* Direct calls of the planner, the sampling bounds and the glyph mapper   *)
(***************************************************************************)
MaxPlanW == 11
MaxPlanH == 10
MaxPlanT == 13
MaxSize == 12
MaxCells == 12
LumDen == 36

Idle ==
    /\ argv = <<PROG>>
    /\ file = NotImage
    /\ pc = "idle"
    /\ Locals0

MainVars == <<argv, file, pc, filename, target_width, invert, img, w, h,
              channels, out_w, out_h, ramp, oy, sy0, sy1, ox, out, err,
              exit_code>>

\* lines 87-89 on their own
InitPlan ==
    /\ Idle
    /\ \E a \in 1..MaxPlanW, b \in 1..MaxPlanH, t \in 1..MaxPlanT :
          call = [fn |-> "plan", w |-> a, h |-> b, tw |-> t, done |-> FALSE,
                  out_w |-> 0, out_h |-> 0]

PlanCall ==
    /\ call.fn = "plan"
    /\ ~call.done
    /\ \E ub \in UBModes :
          call' = [call EXCEPT !.done = TRUE,
                               !.out_w = call.tw,
                               !.out_h = PlanOutH(call.h, call.w, call.tw, ub)]
    /\ UNCHANGED MainVars

SpecPlan == InitPlan /\ [][PlanCall]_vars

\* lines 96-101 / 104-109 on their own, for every cell of one axis
InitRect ==
    /\ Idle
    /\ \E sz \in 1..MaxSize, n \in 1..MaxCells :
          call = [fn |-> "rect", size |-> sz, n |-> n, done |-> FALSE,
                  lo |-> <<>>, hi |-> <<>>]

RectCall ==
    /\ call.fn = "rect"
    /\ ~call.done
    /\ \E ub \in UBModes :
          call' = [call EXCEPT
                     !.done = TRUE,
                     !.lo = [o \in 1..call.n |->
                               SrcLo(o - 1, call.size, call.n, ub)],
                     !.hi = [o \in 1..call.n |->
                               SrcHi(o - 1, call.size, call.n, ub)]]
    /\ UNCHANGED MainVars

SpecRect == InitRect /\ [][RectCall]_vars

\* luminance_to_char on its own: the luminances k/LumDen from -1 to 2, and
\* 1e10, -1e10, the infinities and NaN
BIG == Fin(1, 9765625, 10)
LumInputs ==
    {FDiv(IntToFloat(k), IntToFloat(LumDen)) : k \in (-LumDen)..(2 * LumDen)}
    \cup {BIG, Fin(-1, 9765625, 10), FInf(1), FInf(-1), FNaN}

InitGlyph ==
    /\ Idle
    /\ \E l \in LumInputs, r \in {RAMP_DEFAULT, RAMP_INVERT} :
          call = [fn |-> "glyph", lum |-> l, ramp |-> r, done |-> FALSE,
                  ch |-> ""]

GlyphCall ==
    /\ call.fn = "glyph"
    /\ ~call.done
    /\ \E ub \in UBModes :
          call' = [call EXCEPT
                     !.done = TRUE,
                     !.ch = luminance_to_char(call.lum, call.ramp, ub)]
    /\ UNCHANGED MainVars

SpecGlyph == InitGlyph /\ [][GlyphCall]_vars


(***************************************************************************)
(* Vocabulary of the properties                                            *)
(***************************************************************************)
Lightest(r) == r[Len(r)]
Darkest(r) == r[1]
Max(a, b) == IF a > b THEN a ELSE b

RECURSIVE Reverse(_)
Reverse(q) == IF q = <<>> THEN <<>> ELSE Append(Reverse(Tail(q)), Head(q))

Succeeded == pc = "done" /\ exit_code = 0

\* the grid on standard output: out_h lines of out_w glyphs and a newline
GridShape ==
    /\ Len(out) = out_h * (out_w + 1)
    /\ \A i \in 1..Len(out) : (out[i] = "\n") <=> (i % (out_w + 1) = 0)

GlyphsOf(o) == {o[i] : i \in {j \in 1..Len(o) : o[j] # "\n"}}

\* the colour of pixel p of a decoded image, in the layout the decoder
\* delivers: n bytes per pixel, grey first when n < 3
TruePixel(f, p) ==
    IF f.n < 3 THEN <<f.data[p * f.n + 1], f.data[p * f.n + 1],
                      f.data[p * f.n + 1]>>
    ELSE <<f.data[p * f.n + 1], f.data[p * f.n + 2], f.data[p * f.n + 3]>>

IsUniform(f) ==
    /\ f # NotImage
    /\ \A p \in 0..(f.w * f.h - 1) : TruePixel(f, p) = TruePixel(f, 0)

IsAllBlack(f) == IsUniform(f) /\ TruePixel(f, 0) = BLACK

\* three white pixels and a black one at the bottom right of a 2x2 image
IsCorner2x2(f) ==
    /\ f # NotImage
    /\ f.w = 2
    /\ f.h = 2
    /\ \A p \in 0..2 : TruePixel(f, p) = WHITE
    /\ TruePixel(f, 3) = BLACK

\* the toGlyph of a colour
GlyphOfColour(c, r) ==
    luminance_to_char(Luminance(c[1], c[2], c[3]), r, "saturate")

(***************************************************************************)
(* C1: a run that has ended has exit code 1 when the path argument is      *)
(* missing (and then nothing was decoded), 2 when the path is given and    *)
(* the decoder returns no buffer, and 0 otherwise, after the whole grid    *)
(* was written; a run that has not ended has no exit code.                 *)
(***************************************************************************)
ExpectedExit ==
    IF argc < 2 THEN 1 ELSE IF file = NotImage THEN 2 ELSE 0

ExitCodes_C1 ==
    /\ pc # "done" => exit_code = -1
    /\ pc = "done" => exit_code = ExpectedExit
    /\ argc < 2 => pc \in {"start", "done"} /\ filename = <<>> /\ w = 0
    /\ exit_code = 0 => GridShape

ExitWitness_C1 == Succeeded /\ Len(out) > 0 /\ argc = 2

(***************************************************************************)
(* C2: standard output is non-empty only after a successful decode; a run  *)
(* that exits 1 or 2 has written nothing to it, and a finished run has     *)
(* written either the complete grid or nothing.                            *)
(***************************************************************************)
NoPartialOutput_C2 ==
    /\ out # <<>> => /\ argc >= 2
                     /\ file # NotImage
                     /\ pc \in {"row", "cell", "done"}
    /\ exit_code \in {1, 2} => out = <<>>
    /\ pc = "done" => out = <<>> \/ (exit_code = 0 /\ GridShape)

FatalWitness_C2 ==
    pc = "done" /\ exit_code = 2 /\ out = <<>> /\ err # <<>> /\ argc = 4

(***************************************************************************)
(* C3: a successful run writes out_h lines of out_w glyphs and a newline,  *)
(* in row-major order: every write appends one character, the glyph of     *)
(* cell (ox, oy) at position oy*(out_w+1) + ox + 1 and the newline of row  *)
(* oy after its out_w glyphs.                                              *)
(***************************************************************************)
WriteOrder ==
    out' # out =>
        /\ Len(out') = Len(out) + 1
        /\ SubSeq(out', 1, Len(out)) = out
        /\ Len(out) = oy * (out_w + 1) + ox
        /\ 0 <= ox /\ ox <= out_w /\ oy < out_h
        /\ (out'[Len(out')] = "\n") <=> (ox = out_w)

RowMajor_C3 == [](Succeeded => GridShape) /\ [][WriteOrder]_vars

GridWitness_C3 == Succeeded /\ out_h >= 2 /\ out_w >= 2 /\ Len(out) >= 6

(***************************************************************************)
(* C4 as claimed: out_w is the target width and out_h is                   *)
(* max(1, round(h * (out_w / w) * 0.55)), rounding the exact product half  *)
(* away from zero.                                                         *)
(***************************************************************************)
\* round(11*h*ow / (20*w)), half away from zero
ExactRound(hh, ww, ow) == (22 * hh * ow + 20 * ww) \div (40 * ww)

PlanExact_C4 ==
    (call.fn = "plan" /\ call.done) =>
        /\ call.out_w = call.tw
        /\ call.out_h = Max(1, ExactRound(call.h, call.w, call.tw))

(***************************************************************************)
(* C4 as amended: out_w is the target width, out_h >= 1, and out_h is      *)
(* max(1, k) for an integer k nearest to the exact product up to the       *)
(* single-precision error of the product (relative 2^-22): at an exact     *)
(* tie k + 1/2 the program may yield k.                                    *)
(***************************************************************************)
PlanSlack(hh, ow) == (11 * hh * ow) \div 4194304

PlanFloat_C4 ==
    (call.fn = "plan" /\ call.done) =>
        LET d == 11 * call.h * call.tw - 20 * call.w * call.out_h
            tol == 10 * call.w + PlanSlack(call.h, call.tw)
        IN /\ call.out_w = call.tw
           /\ call.out_h >= 1
           /\ call.out_h > 1 => Abs(d) <= tol
           /\ call.out_h = 1 => d <= tol

PlanWitness_C4 ==
    /\ call.fn = "plan" /\ call.done
    /\ call.w = 11 /\ call.h = 10 /\ call.tw = 13
    /\ call.out_h = 6
    /\ ExactRound(10, 11, 13) = 7

(***************************************************************************)
(* C5: luminance_to_char returns ramp[clamp(round-half-up(lum*(len-1)),    *)
(* 0, len-1)] for every luminance: ramp[0] at and below 0, the last glyph  *)
(* at and above 1, and between them the glyph at the product lum*(len-1),  *)
(* as the float holds it, rounded half up.                                 *)
(***************************************************************************)
\* floor(p + 1/2) for a finite float 0 <= p < 2^6
HalfUp(p) ==
    IF p.m = 0 \/ -p.e >= 30 THEN 0
    ELSE (2 * p.m + Pow2(-p.e)) \div Pow2(1 - p.e)

ClaimedGlyph(x, r) ==
    IF x.k = "inf" THEN (IF x.s = 1 THEN Lightest(r) ELSE Darkest(r))
    ELSE IF x.m = 0 \/ x.s = -1 THEN Darkest(r)
    ELSE IF x.e >= -23 THEN Lightest(r)
    ELSE r[clampi(HalfUp(FMul(x, IntToFloat(Len(r) - 1))), 0, Len(r) - 1) + 1]

GlyphTotal_C5 ==
    (call.fn = "glyph" /\ call.done /\ call.lum.k # "nan") =>
        call.ch = ClaimedGlyph(call.lum, call.ramp)

(***************************************************************************)
(* C6: converting a single-colour image yields a grid whose every glyph is *)
(* the toGlyph of that colour, for 1, 2, 3 and 4 channels.                 *)
(***************************************************************************)
UniformImage_C6 ==
    (Succeeded /\ IsUniform(file)) =>
        GlyphsOf(out) = {GlyphOfColour(TruePixel(file, 0), ramp)}

(***************************************************************************)
(* C7 as claimed: the 2x2 image with three white pixels and a black one at *)
(* the bottom right, at width 2, gives 2 rows of 2 glyphs, the first the   *)
(* lightest of the ramp and the last the darkest.                          *)
(***************************************************************************)
Scenario1_C7 ==
    (Succeeded /\ IsCorner2x2(file) /\ target_width = 2) =>
        /\ out_h = 2
        /\ Len(out) = 6
        /\ out[1] = Lightest(ramp)
        /\ out[5] = Darkest(ramp)

(***************************************************************************)
(* C7 as amended: that image at width 2 gives 1 row of 2 glyphs (the       *)
(* height is round(2 * (2/2) * 0.55) = 1); the first glyph is the lightest *)
(* of the ramp and, on a 1-, 3- or 4-channel buffer, the second, which     *)
(* averages a white and the black pixel, is the mid-ramp glyph ramp[5].    *)
(***************************************************************************)
Scenario1Row_C7 ==
    (Succeeded /\ IsCorner2x2(file) /\ target_width = 2) =>
        /\ out_h = 1
        /\ Len(out) = 3
        /\ out[1] = Lightest(ramp)
        /\ file.n # 2 => out[2] = ramp[6]
        /\ out[3] = "\n"

Scenario1Witness_C7 ==
    /\ Succeeded /\ IsCorner2x2(file) /\ target_width = 2
    /\ file.n = 3
    /\ out = <<" ", "=", "\n">>

(***************************************************************************)
(* C8: the width used is positive: the value of the width argument when it *)
(* reads as a positive integer, and 120 when it is absent, reads as zero   *)
(* or less, or holds no number; the fallback is silent and leaves the exit *)
(* code alone.                                                             *)
(***************************************************************************)
\* the value of a string of digits
RECURSIVE DecimalValue(_)
DecimalValue(q) ==
    IF q = <<>> THEN 0
    ELSE 10 * DecimalValue(SubSeq(q, 1, Len(q) - 1)) + DigitVal(q[Len(q)])

AllDigits(q) == q # <<>> /\ \A i \in 1..Len(q) : IsDigit(q[i])

\* a holds the number v: blanks, an optional sign, the digits of |v|, and
\* then the end of the string or a character that is no digit
HoldsNumber(a, v) ==
    \E i \in 0..Len(a), j \in 0..Len(a), k \in 1..Len(a) :
        /\ i <= j /\ j < k /\ j - i <= 1
        /\ \A x \in 1..i : IsSpace(a[x])
        /\ j = i + 1 => a[j] \in {"+", "-"}
        /\ AllDigits(SubSeq(a, j + 1, k))
        /\ k < Len(a) => ~IsDigit(a[k + 1])
        /\ v = (IF j = i + 1 /\ a[j] = "-" THEN -1 ELSE 1)
                 * DecimalValue(SubSeq(a, j + 1, k))

ExpectedWidth ==
    IF argc >= 3 /\ \E v \in 1..999 : HoldsNumber(argv[3], v)
    THEN CHOOSE v \in 1..999 : HoldsNumber(argv[3], v)
    ELSE DEFAULT_WIDTH

WidthFallback_C8 ==
    /\ pc \notin {"start", "idle"} /\ argc >= 2 =>
          /\ target_width > 0
          /\ target_width = ExpectedWidth
    /\ pc \in {"row", "cell"} \/ Succeeded => out_w = target_width
    /\ pc = "done" /\ argc >= 2 =>
          /\ exit_code = (IF file = NotImage THEN 2 ELSE 0)
          /\ exit_code = 0 => err = <<>> /\ GridShape

WidthWitness_C8 ==
    /\ Succeeded /\ argc = 3 /\ argv[3] = <<"0">>
    /\ out_w = DEFAULT_WIDTH
    /\ Len(out) = out_h * (DEFAULT_WIDTH + 1)

(***************************************************************************)
(* C9: the inverted ramp is the reverse of the default ramp; an all-black  *)
(* image gives only the last glyph of the default ramp under "inv" or      *)
(* "invert", and only its first glyph under any other mode or none.        *)
(***************************************************************************)
InvertBlack_C9 ==
    /\ RAMP_INVERT = Reverse(RAMP_DEFAULT)
    /\ (Succeeded /\ IsAllBlack(file)) =>
          GlyphsOf(out) =
             IF argc >= 4 /\ argv[4] \in {INV, INVERT}
             THEN {Lightest(RAMP_DEFAULT)} ELSE {Darkest(RAMP_DEFAULT)}

(***************************************************************************)
(* C10: along an axis of size pixels cut into n cells the bounds are       *)
(* lo(o) = floor(o*size/n) and hi(o) = ceil((o+1)*size/n); lo(0) = 0,      *)
(* hi(n-1) = size, every cell has lo < hi, adjacent cells overlap by 0 or  *)
(* 1 pixel, and every pixel lies in some cell.                             *)
(***************************************************************************)
Tiling_C10 ==
    (call.fn = "rect" /\ call.done) =>
        LET n == call.n
            sz == call.size
            lo == call.lo
            hi == call.hi
        IN /\ \A o \in 1..n : /\ lo[o] = ((o - 1) * sz) \div n
                              /\ hi[o] = (o * sz + n - 1) \div n
                              /\ lo[o] < hi[o]
           /\ lo[1] = 0
           /\ hi[n] = sz
           /\ \A o \in 1..(n - 1) : hi[o] - lo[o + 1] \in {0, 1}
           /\ \A p \in 0..(sz - 1) : \E o \in 1..n : lo[o] <= p /\ p < hi[o]

TilingWitness_C10 ==
    /\ call.fn = "rect" /\ call.done
    /\ call.size = 5 /\ call.n = 3
    /\ call.hi[1] - call.lo[2] = 1
    /\ call.hi[2] - call.lo[3] = 1

====
